---- MODULE Spec2Model ----
(***************************************************************************)
(* A model of tools/generate_api_docs.py: the per-language regex           *)
(* extractors, scan_repository, group_by_file, render_markdown and main.   *)
(*                                                                         *)
(* Text is a sequence of tokens.  A token is one whitespace character      *)
(* (" ", "\t", "\n"), one punctuation character, or one maximal run of     *)
(* word characters (an identifier or keyword).  A Python str built from    *)
(* the text (a name, a signature) is the sequence of the tokens it spans.  *)
(* A path component is a sequence of characters, a path a sequence of      *)
(* components, as in pathlib's Path.parts.                                 *)
(***************************************************************************)
EXTENDS Integers, Sequences, FiniteSets, TLC

\* ------------------------------------------------------------ bounds
MaxDecls == 2
MaxFiles == 2

\* ------------------------------------------------------------ tokens
WS == {" ", "\t", "\n"}

IsWS(c) == c \in WS

Keywords ==
  {"export", "default", "function", "class", "const", "let", "var",
   "interface", "type", "enum", "as", "def", "func", "struct", "pub", "fn",
   "trait", "public", "static", "void", "pass"}

UpperNames == {"Foo", "Bar", "Server", "Handler", "Run", "Shape", "Color"}

UnderscoreNames == {"_hidden"}

LowerNames == {"add", "sum", "a", "b", "c", "x", "y", "bar", "run", "main",
               "args", "greet", "build", "s", "make", "area"}

\* [A-Za-z_][A-Za-z0-9_]* : the whole token is an identifier
IsIdent(c) == c \in Keywords \cup UpperNames \cup UnderscoreNames \cup LowerNames

\* [A-Z][A-Za-z0-9_]*
IsUpperIdent(c) == c \in UpperNames

\* str.startswith("_")
StartsWithUnderscore(c) == c \in UnderscoreNames

EOT == "<eot>"

Tok(t, i) == IF i \in 1..Len(t) THEN t[i] ELSE EOT

\* \s* from position i: the position of the first token that is no whitespace
SkipWS(t, i) ==
  CHOOSE j \in i..(Len(t) + 1) :
    /\ \A k \in i..(j - 1) : IsWS(t[k])
    /\ ~IsWS(Tok(t, j))

\* [^c]* from position i: the position of the first token c, Len(t)+1 if none
SkipTo(t, i, c) ==
  CHOOSE j \in i..(Len(t) + 1) :
    /\ \A k \in i..(j - 1) : t[k] # c
    /\ (j <= Len(t) => t[j] = c)

\* [^\s(]+ from position i: the position of the first whitespace or "("
SkipRun(t, i) ==
  CHOOSE j \in i..(Len(t) + 1) :
    /\ \A k \in i..(j - 1) : ~IsWS(t[k]) /\ t[k] # "("
    /\ (j <= Len(t) => IsWS(t[j]) \/ t[j] = "(")

\* ^ under re.MULTILINE
AtLineStart(t, i) == i = 1 \/ (i \in 2..(Len(t) + 1) /\ t[i - 1] = "\n")

\* \b before a word token
AtWordStart(t, i) == i = 1 \/ ~IsIdent(Tok(t, i - 1))

\* str.strip()
RECURSIVE LStrip(_)
LStrip(s) == IF s # <<>> /\ IsWS(Head(s)) THEN LStrip(Tail(s)) ELSE s

RECURSIVE RStrip(_)
RStrip(s) ==
  IF s # <<>> /\ IsWS(s[Len(s)]) THEN RStrip(SubSeq(s, 1, Len(s) - 1)) ELSE s

Strip(s) == RStrip(LStrip(s))

\* str.find(sep, from): the first position >= from where sep occurs, 0 if none
Find(s, sep, from) ==
  LET hits == {i \in from..(Len(s) - Len(sep) + 1) :
                 SubSeq(s, i, i + Len(sep) - 1) = sep}
  IN IF hits = {} THEN 0 ELSE CHOOSE i \in hits : \A j \in hits : i <= j

\* str.split(sep)
RECURSIVE Split(_, _)
Split(s, sep) ==
  LET i == Find(s, sep, 1)
  IN IF i = 0 THEN <<s>>
     ELSE <<SubSeq(s, 1, i - 1)>> \o Split(SubSeq(s, i + Len(sep), Len(s)), sep)

\* sep in s
Contains(s, sep) == Find(s, sep, 1) # 0

NoMatch == [ok |-> FALSE, end |-> 0, g1 |-> <<>>, g2 |-> <<>>]

Matched(e, a, b) == [ok |-> TRUE, end |-> e, g1 |-> a, g2 |-> b]

\* ------------------------------------------------------------ patterns
\* Each pattern is tried at start position i and gives the end of the match
\* (exclusive) and its groups.

JsExportKinds ==
  {"function", "class", "const", "let", "var", "interface", "type", "enum"}

\* ^\s*export\s+(?:default\s+)?(function|class|...)\s+([A-Za-z_$][\w$]*)
JS_TS_EXPORT_RE(t, i) ==
  LET a == SkipWS(t, i)
      b == SkipWS(t, a + 1)
      k == IF Tok(t, b) = "default" /\ IsWS(Tok(t, b + 1))
           THEN SkipWS(t, b + 1) ELSE b
      c == SkipWS(t, k + 1)
  IN IF /\ AtLineStart(t, i)
        /\ Tok(t, a) = "export" /\ IsWS(Tok(t, a + 1))
        /\ Tok(t, k) \in JsExportKinds /\ IsWS(Tok(t, k + 1))
        /\ IsIdent(Tok(t, c))
     THEN Matched(c + 1, <<t[k]>>, <<t[c]>>)
     ELSE NoMatch

\* ^\s*export\s*\{([^}]+)\}
JS_TS_EXPORT_NAMED_RE(t, i) ==
  LET a == SkipWS(t, i)
      b == SkipWS(t, a + 1)
      e == SkipTo(t, b + 1, "}")
  IN IF /\ AtLineStart(t, i)
        /\ Tok(t, a) = "export"
        /\ Tok(t, b) = "{"
        /\ e <= Len(t) /\ e > b + 1
     THEN Matched(e + 1, SubSeq(t, b + 1, e - 1), <<>>)
     ELSE NoMatch

\* ^\s*export\s+function\s+([A-Za-z_$][\w$]*)\s*\(([^)]*)\)
JS_TS_FUNC_RE(t, i) ==
  LET a == SkipWS(t, i)
      b == SkipWS(t, a + 1)
      c == SkipWS(t, b + 1)
      d == SkipWS(t, c + 1)
      e == SkipTo(t, d + 1, ")")
  IN IF /\ AtLineStart(t, i)
        /\ Tok(t, a) = "export" /\ IsWS(Tok(t, a + 1))
        /\ Tok(t, b) = "function" /\ IsWS(Tok(t, b + 1))
        /\ IsIdent(Tok(t, c))
        /\ Tok(t, d) = "("
        /\ e <= Len(t)
     THEN Matched(e + 1, <<t[c]>>, SubSeq(t, d + 1, e - 1))
     ELSE NoMatch

\* ^\s*export\s+class\s+([A-Za-z_$][\w$]*)
JS_TS_CLASS_RE(t, i) ==
  LET a == SkipWS(t, i)
      b == SkipWS(t, a + 1)
      c == SkipWS(t, b + 1)
  IN IF /\ AtLineStart(t, i)
        /\ Tok(t, a) = "export" /\ IsWS(Tok(t, a + 1))
        /\ Tok(t, b) = "class" /\ IsWS(Tok(t, b + 1))
        /\ IsIdent(Tok(t, c))
     THEN Matched(c + 1, <<t[c]>>, <<>>)
     ELSE NoMatch

\* ^\s*def\s+([A-Za-z_][A-Za-z0-9_]*)\s*\(([^)]*)\):
PY_DEF_RE(t, i) ==
  LET a == SkipWS(t, i)
      c == SkipWS(t, a + 1)
      d == SkipWS(t, c + 1)
      e == SkipTo(t, d + 1, ")")
  IN IF /\ AtLineStart(t, i)
        /\ Tok(t, a) = "def" /\ IsWS(Tok(t, a + 1))
        /\ IsIdent(Tok(t, c))
        /\ Tok(t, d) = "("
        /\ e <= Len(t)
        /\ Tok(t, e + 1) = ":"
     THEN Matched(e + 2, <<t[c]>>, SubSeq(t, d + 1, e - 1))
     ELSE NoMatch

\* ^\s*class\s+([A-Za-z_][A-Za-z0-9_]*)(?:\([^)]*\))?:
PY_CLASS_RE(t, i) ==
  LET a == SkipWS(t, i)
      c == SkipWS(t, a + 1)
      e == SkipTo(t, c + 2, ")")
  IN IF /\ AtLineStart(t, i)
        /\ Tok(t, a) = "class" /\ IsWS(Tok(t, a + 1))
        /\ IsIdent(Tok(t, c))
     THEN IF Tok(t, c + 1) = "(" /\ e <= Len(t) /\ Tok(t, e + 1) = ":"
          THEN Matched(e + 2, <<t[c]>>, <<>>)
          ELSE IF Tok(t, c + 1) = ":"
               THEN Matched(c + 2, <<t[c]>>, <<>>)
               ELSE NoMatch
     ELSE NoMatch

\* ^\s*(?:type\s+(?:struct|interface)\s+|func\s+)([A-Z][A-Za-z0-9_]*)
GO_EXPORT_RE(t, i) ==
  LET a == SkipWS(t, i)
      b == SkipWS(t, a + 1)
      c == SkipWS(t, b + 1)
  IN IF AtLineStart(t, i) /\ IsWS(Tok(t, a + 1))
     THEN IF /\ Tok(t, a) = "type"
             /\ Tok(t, b) \in {"struct", "interface"} /\ IsWS(Tok(t, b + 1))
             /\ IsUpperIdent(Tok(t, c))
          THEN Matched(c + 1, <<t[c]>>, <<>>)
          ELSE IF Tok(t, a) = "func" /\ IsUpperIdent(Tok(t, b))
               THEN Matched(b + 1, <<t[b]>>, <<>>)
               ELSE NoMatch
     ELSE NoMatch

\* ^\s*pub\s+(?:fn|struct|enum|trait)\s+([A-Za-z_][A-Za-z0-9_]*)
RUST_PUB_RE(t, i) ==
  LET a == SkipWS(t, i)
      b == SkipWS(t, a + 1)
      c == SkipWS(t, b + 1)
  IN IF /\ AtLineStart(t, i)
        /\ Tok(t, a) = "pub" /\ IsWS(Tok(t, a + 1))
        /\ Tok(t, b) \in {"fn", "struct", "enum", "trait"} /\ IsWS(Tok(t, b + 1))
        /\ IsIdent(Tok(t, c))
     THEN Matched(c + 1, <<t[c]>>, <<>>)
     ELSE NoMatch

\* \bpublic\s+(?:class|interface|enum)\s+([A-Za-z_][A-Za-z0-9_]*)
JAVA_PUBLIC_RE(t, i) ==
  LET b == SkipWS(t, i + 1)
      c == SkipWS(t, b + 1)
  IN IF /\ AtWordStart(t, i)
        /\ Tok(t, i) = "public" /\ IsWS(Tok(t, i + 1))
        /\ Tok(t, b) \in {"class", "interface", "enum"} /\ IsWS(Tok(t, b + 1))
        /\ IsIdent(Tok(t, c))
     THEN Matched(c + 1, <<t[c]>>, <<>>)
     ELSE NoMatch

\* \bpublic\s+[^\s(]+\s+([a-zA-Z_][A-Za-z0-9_]*)\s*\(([^)]*)\)
JAVA_METHOD_RE(t, i) ==
  LET b == SkipWS(t, i + 1)
      r == SkipRun(t, b)
      c == SkipWS(t, r)
      d == SkipWS(t, c + 1)
      e == SkipTo(t, d + 1, ")")
  IN IF /\ AtWordStart(t, i)
        /\ Tok(t, i) = "public" /\ IsWS(Tok(t, i + 1))
        /\ r > b /\ IsWS(Tok(t, r))
        /\ IsIdent(Tok(t, c))
        /\ Tok(t, d) = "("
        /\ e <= Len(t)
     THEN Matched(e + 1, <<t[c]>>, SubSeq(t, d + 1, e - 1))
     ELSE NoMatch

\* ^(?:function\s+)?([A-Za-z_][A-Za-z0-9_]*)\s*\(\)\s*\{
ShellTail(t, c) ==
  LET d == SkipWS(t, c + 1)
      e == SkipWS(t, d + 2)
  IN IF /\ IsIdent(Tok(t, c))
        /\ Tok(t, d) = "(" /\ Tok(t, d + 1) = ")"
        /\ Tok(t, e) = "{"
     THEN Matched(e + 1, <<t[c]>>, <<>>)
     ELSE NoMatch

SHELL_FUNC_RE(t, i) ==
  LET withKw == IF Tok(t, i) = "function" /\ IsWS(Tok(t, i + 1))
                THEN ShellTail(t, SkipWS(t, i + 1)) ELSE NoMatch
  IN IF ~AtLineStart(t, i) THEN NoMatch
     ELSE IF withKw.ok THEN withKw ELSE ShellTail(t, i)

MatchAt(re, t, i) ==
  CASE re = "JS_TS_EXPORT_RE" -> JS_TS_EXPORT_RE(t, i)
    [] re = "JS_TS_EXPORT_NAMED_RE" -> JS_TS_EXPORT_NAMED_RE(t, i)
    [] re = "JS_TS_FUNC_RE" -> JS_TS_FUNC_RE(t, i)
    [] re = "JS_TS_CLASS_RE" -> JS_TS_CLASS_RE(t, i)
    [] re = "PY_DEF_RE" -> PY_DEF_RE(t, i)
    [] re = "PY_CLASS_RE" -> PY_CLASS_RE(t, i)
    [] re = "GO_EXPORT_RE" -> GO_EXPORT_RE(t, i)
    [] re = "RUST_PUB_RE" -> RUST_PUB_RE(t, i)
    [] re = "JAVA_PUBLIC_RE" -> JAVA_PUBLIC_RE(t, i)
    [] re = "JAVA_METHOD_RE" -> JAVA_METHOD_RE(t, i)
    [] re = "SHELL_FUNC_RE" -> SHELL_FUNC_RE(t, i)

\* re.finditer: the non-overlapping matches, leftmost first, the search for
\* the next one starting where the previous one ended
RECURSIVE FindIterFrom(_, _, _)
FindIterFrom(re, t, from) ==
  IF from > Len(t) THEN <<>>
  ELSE LET m == MatchAt(re, t, from)
       IN IF m.ok THEN <<m>> \o FindIterFrom(re, t, m.end)
          ELSE FindIterFrom(re, t, from + 1)

FindIter(re, t) == FindIterFrom(re, t, 1)

\* ------------------------------------------------------------ paths
\* Path.parts of REPO_ROOT (WORKSPACE=/w)
REPO_ROOT == << <<"/">>, <<"w">> >>

\* str(path): the anchor, then the other parts joined by "/"
RECURSIVE JoinParts(_)
JoinParts(ps) ==
  IF ps = <<>> THEN <<>>
  ELSE IF Len(ps) = 1 THEN ps[1]
  ELSE ps[1] \o <<"/">> \o JoinParts(Tail(ps))

PathStr(path) == path[1] \o JoinParts(Tail(path))

\* Path.suffix: from the last "." of the final component, unless that "." is
\* its first or its last character
Suffix(path) ==
  LET name == path[Len(path)]
      dots == {i \in 1..Len(name) : name[i] = "."}
      i == CHOOSE d \in dots : \A e \in dots : e <= d
  IN IF dots = {} THEN <<>>
     ELSE IF 1 < i /\ i < Len(name) THEN SubSeq(name, i, Len(name))
     ELSE <<>>

\* Python orders str by code point
Ord(c) ==
  CASE c = "." -> 46 [] c = "/" -> 47
    [] c = "B" -> 66 [] c = "P" -> 80 [] c = "Y" -> 89
    [] c = "a" -> 97 [] c = "b" -> 98 [] c = "h" -> 104 [] c = "o" -> 111
    [] c = "p" -> 112 [] c = "s" -> 115 [] c = "t" -> 116 [] c = "u" -> 117
    [] c = "w" -> 119 [] c = "y" -> 121

RECURSIVE StrLess(_, _)
StrLess(x, y) ==
  IF y = <<>> THEN FALSE
  ELSE IF x = <<>> THEN TRUE
  ELSE IF Head(x) = Head(y) THEN StrLess(Tail(x), Tail(y))
  ELSE Ord(Head(x)) < Ord(Head(y))

\* ------------------------------------------------------------ parsers
Symbol(kind, name, signature, path) ==
  [kind |-> kind, name |-> name, signature |-> signature, file |-> PathStr(path)]

\* f"{name}({params})"
CallSignature(name, params) == name \o <<"(">> \o params \o <<")">>

RECURSIVE Flatten(_)
Flatten(ss) == IF ss = <<>> THEN <<>> ELSE Head(ss) \o Flatten(Tail(ss))

\* one entry of an export list: the text after the first " as ", if any
ExportedName(n) ==
  IF Contains(n, <<" ", "as", " ">>)
  THEN Strip(Split(n, <<" ", "as", " ">>)[2])
  ELSE n

\* [n.strip() for n in m.group(1).split(',') if n.strip()]
ExportListNames(body) ==
  LET parts == Split(body, <<",">>)
      stripped == [k \in 1..Len(parts) |-> Strip(parts[k])]
  IN SelectSeq(stripped, LAMBDA n : n # <<>>)

parse_js_ts(path, text) ==
  LET Func(m) == Symbol("function", m.g1, CallSignature(m.g1, Strip(m.g2)), path)
      Class(m) == Symbol("class", m.g1, m.g1, path)
      Export(m) == Symbol(m.g1[1], m.g2, m.g2, path)
      Named(n) == Symbol("symbol", ExportedName(n), ExportedName(n), path)
      List(m) == LET names == ExportListNames(m.g1)
                 IN [k \in 1..Len(names) |-> Named(names[k])]
      funcs == FindIter("JS_TS_FUNC_RE", text)
      classes == FindIter("JS_TS_CLASS_RE", text)
      exports == SelectSeq(FindIter("JS_TS_EXPORT_RE", text),
                           LAMBDA m : m.g1[1] \notin {"function", "class"})
      lists == FindIter("JS_TS_EXPORT_NAMED_RE", text)
  IN [k \in 1..Len(funcs) |-> Func(funcs[k])]
       \o [k \in 1..Len(classes) |-> Class(classes[k])]
       \o [k \in 1..Len(exports) |-> Export(exports[k])]
       \o Flatten([k \in 1..Len(lists) |-> List(lists[k])])

parse_py(path, text) ==
  LET Class(m) == Symbol("class", m.g1, m.g1, path)
      Def(m) == Symbol("function", m.g1, CallSignature(m.g1, Strip(m.g2)), path)
      classes == FindIter("PY_CLASS_RE", text)
      defs == SelectSeq(FindIter("PY_DEF_RE", text),
                        LAMBDA m : ~StartsWithUnderscore(m.g1[1]))
  IN [k \in 1..Len(classes) |-> Class(classes[k])]
       \o [k \in 1..Len(defs) |-> Def(defs[k])]

parse_go(path, text) ==
  LET ms == FindIter("GO_EXPORT_RE", text)
  IN [k \in 1..Len(ms) |-> Symbol("export", ms[k].g1, ms[k].g1, path)]

parse_rust(path, text) ==
  LET ms == FindIter("RUST_PUB_RE", text)
  IN [k \in 1..Len(ms) |-> Symbol("pub", ms[k].g1, ms[k].g1, path)]

parse_java(path, text) ==
  LET Type(m) == Symbol("type", m.g1, m.g1, path)
      Method(m) == Symbol("method", m.g1, CallSignature(m.g1, m.g2), path)
      types == FindIter("JAVA_PUBLIC_RE", text)
      methods == FindIter("JAVA_METHOD_RE", text)
  IN [k \in 1..Len(types) |-> Type(types[k])]
       \o [k \in 1..Len(methods) |-> Method(methods[k])]

parse_shell(path, text) ==
  LET ms == FindIter("SHELL_FUNC_RE", text)
  IN [k \in 1..Len(ms) |->
        Symbol("function", ms[k].g1, CallSignature(ms[k].g1, <<>>), path)]

ParserNames ==
  {"parse_js_ts", "parse_py", "parse_go", "parse_rust", "parse_java", "parse_shell"}

\* parser(path, text)
RunParser(parser, path, text) ==
  CASE parser = "parse_js_ts" -> parse_js_ts(path, text)
    [] parser = "parse_py" -> parse_py(path, text)
    [] parser = "parse_go" -> parse_go(path, text)
    [] parser = "parse_rust" -> parse_rust(path, text)
    [] parser = "parse_java" -> parse_java(path, text)
    [] parser = "parse_shell" -> parse_shell(path, text)

\* ------------------------------------------------------------ dispatch
LANG_EXTS ==
  [js |-> << <<".", "j", "s">>, <<".", "j", "s", "x">> >>,
   ts |-> << <<".", "t", "s">>, <<".", "t", "s", "x">> >>,
   py |-> << <<".", "p", "y">> >>,
   go |-> << <<".", "g", "o">> >>,
   rs |-> << <<".", "r", "s">> >>,
   java |-> << <<".", "j", "a", "v", "a">>, <<".", "k", "t">>,
               <<".", "k", "t", "s">>, <<".", "g", "r", "o", "o", "v", "y">> >>,
   sh |-> << <<".", "s", "h">>, <<".", "b", "a", "s", "h">>,
             <<".", "z", "s", "h">> >>]

PARSERS ==
  << [exts |-> LANG_EXTS.ts \o LANG_EXTS.js, parser |-> "parse_js_ts"],
     [exts |-> LANG_EXTS.py, parser |-> "parse_py"],
     [exts |-> LANG_EXTS.go, parser |-> "parse_go"],
     [exts |-> LANG_EXTS.rs, parser |-> "parse_rust"],
     [exts |-> LANG_EXTS.java, parser |-> "parse_java"],
     [exts |-> LANG_EXTS.sh, parser |-> "parse_shell"] >>

\* a..z for A..Z
Lower(c) == CASE c = "B" -> "b" [] c = "P" -> "p" [] c = "Y" -> "y" [] OTHER -> c

\* InList comparing without regard to case
InListIgnoreCase(ext, exts) ==
  \E k \in 1..Len(exts) :
    [i \in 1..Len(exts[k]) |-> Lower(exts[k][i])] = [i \in 1..Len(ext) |-> Lower(ext[i])]

\* ext in exts
InList(ext, exts) == \E k \in 1..Len(exts) : exts[k] = ext

\* for exts, parser in PARSERS: if ext in exts: ... break
\* the first entry that lists ext, "none" when no entry does
ParserFor(ext) ==
  LET hits == {k \in 1..Len(PARSERS) : InList(ext, PARSERS[k].exts)}
  IN IF hits = {} THEN "none"
     ELSE PARSERS[CHOOSE k \in hits : \A j \in hits : k <= j].parser

\* ------------------------------------------------------------ source lines
\* The declaration lines the extractors are run on: the line's tokens, the
\* parser of its language, and the symbols (kind, name) the declaration stands
\* for.
Decl(parser, line, expect) ==
  [parser |-> parser, line |-> line, expect |-> expect]

Sym(kind, name) == [kind |-> kind, name |-> <<name>>]

Decls ==
  [js_function |->
     Decl("parse_js_ts",
          <<"export", " ", "function", " ", "add", "(", "a", ",", " ", "b", ")",
            " ", "{", "}">>,
          <<Sym("function", "add")>>),
   js_class |->
     Decl("parse_js_ts",
          <<"export", " ", "class", " ", "Foo", " ", "{", "}">>,
          <<Sym("class", "Foo")>>),
   js_const |->
     Decl("parse_js_ts",
          <<"export", " ", "const", " ", "x", " ", "=", " ", "1">>,
          <<Sym("const", "x")>>),
   js_let |->
     Decl("parse_js_ts",
          <<"export", " ", "let", " ", "y", " ", "=", " ", "1">>,
          <<Sym("let", "y")>>),
   js_var |->
     Decl("parse_js_ts",
          <<"export", " ", "var", " ", "s", " ", "=", " ", "1">>,
          <<Sym("var", "s")>>),
   js_interface |->
     Decl("parse_js_ts",
          <<"export", " ", "interface", " ", "Shape", " ", "{", "}">>,
          <<Sym("interface", "Shape")>>),
   js_type |->
     Decl("parse_js_ts",
          <<"export", " ", "type", " ", "Color", " ", "=", " ", "Shape">>,
          <<Sym("type", "Color")>>),
   js_enum |->
     Decl("parse_js_ts",
          <<"export", " ", "enum", " ", "Bar", " ", "{", "}">>,
          <<Sym("enum", "Bar")>>),
   js_export_list |->
     Decl("parse_js_ts",
          <<"export", " ", "{", " ", "a", ",", " ", "b", " ", "as", " ", "c",
            " ", "}">>,
          <<Sym("symbol", "a"), Sym("symbol", "c")>>),
   js_export_alias |->
     Decl("parse_js_ts",
          <<"export", " ", "{", " ", "add", " ", "as", " ", "sum", " ", "}">>,
          <<Sym("symbol", "sum")>>),
   js_export_lines |->
     Decl("parse_js_ts",
          <<"export", " ", "{", "\n", " ", "x", ",", "\n", " ", "y", " ", "as",
            " ", "area", ",", "\n", "}">>,
          <<Sym("symbol", "x"), Sym("symbol", "area")>>),
   js_export_tabs |->
     Decl("parse_js_ts",
          <<"export", " ", "{", " ", "run", "\t", "as", "\t", "main", " ", "}">>,
          <<Sym("symbol", "main")>>),
   js_default_function |->
     Decl("parse_js_ts",
          <<"export", " ", "default", " ", "function", " ", "greet", "(", ")",
            " ", "{", "}">>,
          <<Sym("function", "greet")>>),
   js_default_class |->
     Decl("parse_js_ts",
          <<"export", " ", "default", " ", "class", " ", "Server", " ", "{", "}">>,
          <<Sym("class", "Server")>>),
   py_class |->
     Decl("parse_py",
          <<"class", " ", "Foo", ":">>,
          <<Sym("class", "Foo")>>),
   py_def |->
     Decl("parse_py",
          <<"def", " ", "bar", "(", "x", ",", " ", "y", ")", ":">>,
          <<Sym("function", "bar")>>),
   py_private_def |->
     Decl("parse_py",
          <<"def", " ", "_hidden", "(", ")", ":">>,
          <<>>),
   go_func |->
     Decl("parse_go",
          <<"func", " ", "Run", "(", ")", " ", "{", "}">>,
          <<Sym("export", "Run")>>),
   go_struct |->
     Decl("parse_go",
          <<"type", " ", "Server", " ", "struct", " ", "{", "}">>,
          <<Sym("export", "Server")>>),
   go_interface |->
     Decl("parse_go",
          <<"type", " ", "Handler", " ", "interface", " ", "{", "}">>,
          <<Sym("export", "Handler")>>),
   rs_fn |->
     Decl("parse_rust",
          <<"pub", " ", "fn", " ", "build", "(", ")", " ", "{", "}">>,
          <<Sym("pub", "build")>>),
   rs_struct |->
     Decl("parse_rust",
          <<"pub", " ", "struct", " ", "Foo", " ", "{", "}">>,
          <<Sym("pub", "Foo")>>),
   rs_enum |->
     Decl("parse_rust",
          <<"pub", " ", "enum", " ", "Color", " ", "{", "}">>,
          <<Sym("pub", "Color")>>),
   rs_trait |->
     Decl("parse_rust",
          <<"pub", " ", "trait", " ", "Shape", " ", "{", "}">>,
          <<Sym("pub", "Shape")>>),
   java_class |->
     Decl("parse_java",
          <<"public", " ", "class", " ", "Foo", " ", "{", "}">>,
          <<Sym("type", "Foo")>>),
   java_interface |->
     Decl("parse_java",
          <<"public", " ", "interface", " ", "Shape", " ", "{", "}">>,
          <<Sym("type", "Shape")>>),
   java_enum |->
     Decl("parse_java",
          <<"public", " ", "enum", " ", "Color", " ", "{", "}">>,
          <<Sym("type", "Color")>>),
   java_method |->
     Decl("parse_java",
          <<"public", " ", "void", " ", "run", "(", ")", " ", "{", "}">>,
          <<Sym("method", "run")>>),
   sh_function_keyword |->
     Decl("parse_shell",
          <<"function", " ", "greet", "(", ")", " ", "{">>,
          <<Sym("function", "greet")>>),
   sh_function |->
     Decl("parse_shell",
          <<"build", "(", ")", " ", "{">>,
          <<Sym("function", "build")>>)]

DeclIds == DOMAIN Decls

DeclsOf(parser) == {d \in DeclIds : Decls[d].parser = parser}

\* the text of a file made of the given lines
RECURSIVE FileOf(_)
FileOf(ids) ==
  IF ids = <<>> THEN <<>>
  ELSE IF Len(ids) = 1 THEN Decls[ids[1]].line
  ELSE Decls[ids[1]].line \o <<"\n">> \o FileOf(Tail(ids))

\* a file of the parser's language
ModulePath(parser) ==
  LET k == CHOOSE j \in 1..Len(PARSERS) : PARSERS[j].parser = parser
  IN REPO_ROOT \o << <<"a">> \o PARSERS[k].exts[1] >>

\* one instance of each declaration form of the parser's language
DeclForms ==
  [parse_js_ts |-> <<"js_function", "js_class", "js_const", "js_let", "js_var",
                     "js_interface", "js_type", "js_enum", "js_export_list">>,
   parse_py |-> <<"py_class", "py_def">>,
   parse_go |-> <<"go_func", "go_struct", "go_interface">>,
   parse_rust |-> <<"rs_fn", "rs_struct", "rs_enum", "rs_trait">>,
   parse_java |-> <<"java_class", "java_interface", "java_enum", "java_method">>,
   parse_shell |-> <<"sh_function_keyword", "sh_function">>]

\* ------------------------------------------------------------ repository
IGNORE_DIRS ==
  { <<"n", "o", "d", "e", "_", "m", "o", "d", "u", "l", "e", "s">>,
    <<".", "g", "i", "t">>, <<".", "v", "e", "n", "v">>, <<"d", "i", "s", "t">>,
    <<"b", "u", "i", "l", "d">>, <<"o", "u", "t">>,
    <<"t", "a", "r", "g", "e", "t">>, <<"v", "e", "n", "v">>,
    <<".", "i", "d", "e", "a">>, <<".", "v", "s", "c", "o", "d", "e">> }

\* The files a repository may hold, relative to REPO_ROOT.
RelPaths ==
  { << <<"a", ".", "t", "s">> >>,
    << <<"b", ".", "p", "y">> >>,
    << <<"B", ".", "P", "Y">> >>,
    << <<".", "s", "h">> >>,
    << <<"a">>, <<"o", "u", "t">> >>,
    << <<"a">>, <<"b", ".", "t", "s">> >>,
    << <<"o", "u", "t">>, <<"a", ".", "t", "s">> >>,
    << <<"o", "u", "t">>, <<"a">>, <<"b", ".", "t", "s">> >> }

\* What a file is: readable text with declarations (ok), a zero-length file
\* (empty), text without declarations (nodecl), a file whose read fails
\* (unreadable), a file on which the parser raises (raises), or a symbolic
\* link to a file with declarations outside REPO_ROOT (outside).
FileKinds == {"ok", "empty", "nodecl", "unreadable", "raises", "outside"}

\* where an outside link points to
OUTSIDE == << <<"/">>, <<"t">> >>

\* no file is a directory of another
Trees ==
  LET Fits(T) == \A p, q \in T : Len(p) < Len(q) => SubSeq(q, 1, Len(p)) # p
  IN UNION {[S -> FileKinds] :
              S \in {T \in SUBSET RelPaths : Cardinality(T) <= MaxFiles /\ Fits(T)}}

VARIABLES
  tree,     \* the repository: relative path -> file kind
  stack,    \* os.walk: the directories still to yield, next first
  todo,     \* the filenames of the yielded directory not yet iterated
  symbols,  \* scan_repository's accumulated list
  reads,    \* the paths path.read_text was called on
  calls,    \* the (path, parser) pairs a parser was called on
  order,    \* the files in the order the inner loop took them
  md,       \* render_markdown's result
  output,   \* the content of OUTPUT_PATH
  pc,       \* where main is
  lang,     \* the parser under test
  lines,    \* the declaration lines of the file under test
  text,     \* the file under test
  out,      \* the parser's result
  grouped   \* group_by_file's result

vars == <<tree, stack, todo, symbols, reads, calls, order, md, output, pc,
          lang, lines, text, out, grouped>>

scanVars == <<tree, stack, todo, symbols, reads, calls, order, md, output>>

parseVars == <<lang, lines, text, out>>

NoGroups == [keys |-> <<>>, groups |-> <<>>]

Abs(rel) == REPO_ROOT \o rel

AllPaths == {Abs(rel) : rel \in DOMAIN tree}

KindOf(path) == tree[SubSeq(path, Len(REPO_ROOT) + 1, Len(path))]

IsPrefix(d, p) == Len(d) <= Len(p) /\ SubSeq(p, 1, Len(d)) = d

\* os.scandir(d): the files and the directories directly in d
FilesIn(d) == {p \in AllPaths : Len(p) = Len(d) + 1 /\ IsPrefix(d, p)}

SubDirs(d) ==
  {SubSeq(p, 1, Len(d) + 1) : p \in {q \in AllPaths : Len(q) > Len(d) + 1 /\ IsPrefix(d, q)}}

\* the orders a directory listing may come in
Listings(S) ==
  {s \in [1..Cardinality(S) -> S] : \A i, j \in 1..Cardinality(S) : s[i] = s[j] => i = j}

TsText == FileOf(<<"js_function", "js_export_alias">>)

PyText == FileOf(<<"py_class", "py_def", "py_private_def">>)

ShText == FileOf(<<"sh_function">>)

NoDeclText == <<"x", " ", "=", " ", "1">>

\* the bytes of the file at path
Content(path) ==
  LET kind == KindOf(path)
      name == path[Len(path)]
  IN IF kind = "empty" THEN <<>>
     ELSE IF kind = "nodecl" THEN NoDeclText
     ELSE IF name[1] \in {"b", "B"} THEN PyText
     ELSE IF name[1] = "a" THEN TsText
     ELSE ShText

\* set(path.parts) against IGNORE_DIRS
PartsIgnored(path) ==
  LET parts == {path[k] : k \in 1..Len(path)}
  IN \E ignored \in IGNORE_DIRS : ignored \in parts

\* is_ignored looking at the directories of the path only
is_ignored_ParentOnly(path) == PartsIgnored(SubSeq(path, 1, Len(path) - 1))

is_ignored(path) == PartsIgnored(path)

\* path.read_text, "" when it raises
read_text_safe(path) ==
  IF KindOf(path) = "unreadable" THEN <<>> ELSE Content(path)

\* TryParse with a parser that has extended symbols in place before it raises
TryParsePartial(parser, path, txt) ==
  LET syms == RunParser(parser, path, txt)
  IN IF KindOf(path) = "raises" THEN SubSeq(syms, 1, 1) ELSE syms

\* try: symbols.extend(parser(path, text)) / except Exception: pass
\* what the call adds to symbols
TryParse(parser, path, txt) ==
  IF KindOf(path) = "raises" THEN <<>> ELSE RunParser(parser, path, txt)

\* ------------------------------------------------------------ grouping
\* GroupAdd assigning the list instead of appending to it
GroupAddOverwrite(acc, s) ==
  IF s.file \in DOMAIN acc.groups
  THEN [acc EXCEPT !.groups[s.file] = <<s>>]
  ELSE [keys |-> Append(acc.keys, s.file),
        groups |-> acc.groups @@ (s.file :> <<s>>)]

\* grouped.setdefault(s["file"], []).append(s); keys is the dict's insertion
\* order
GroupAdd(acc, s) ==
  IF s.file \in DOMAIN acc.groups
  THEN [acc EXCEPT !.groups[s.file] = Append(@, s)]
  ELSE [keys |-> Append(acc.keys, s.file),
        groups |-> acc.groups @@ (s.file :> <<s>>)]

RECURSIVE GroupFrom(_, _)
GroupFrom(acc, syms) ==
  IF syms = <<>> THEN acc
  ELSE GroupFrom(GroupAdd(acc, Head(syms)), Tail(syms))

group_by_file(syms) == GroupFrom([keys |-> <<>>, groups |-> <<>>], syms)

\* sorted(): insertion into an ascending list
RECURSIVE InsertSorted(_, _)
InsertSorted(x, s) ==
  IF s = <<>> THEN <<x>>
  ELSE IF StrLess(x, Head(s)) THEN <<x>> \o s
  ELSE <<Head(s)>> \o InsertSorted(x, Tail(s))

RECURSIVE SortAll(_, _)
SortAll(keys, acc) ==
  IF keys = <<>> THEN acc ELSE SortAll(Tail(keys), InsertSorted(Head(keys), acc))

\* Sorted leaving the keys in insertion order
SortedNot(keys) == keys

Sorted(keys) == SortAll(keys, <<>>)

\* ------------------------------------------------------------ rendering
Line(tag, a, b) == [line |-> tag, a |-> a, b |-> b]

MD_HEADER == Line("MD_HEADER", <<>>, <<>>)

FallbackLine == Line("No public APIs were detected in this repository.", <<>>, <<>>)

UsageLines ==
  << Line("## Usage", <<>>, <<>>), Line("- Regenerate", <<>>, <<>>),
     Line("- Scope", <<>>, <<>>), Line("- Notes", <<>>, <<>>) >>

\* f"- **{s['kind']}**: `{s['signature']}`"
ItemLine(s) == Line("- kind: signature", <<s.kind>>, s.signature)

\* f"## {rel}"
SectionLine(rel) == Line("## rel", rel, <<>>)

BlankLine == Line("", <<>>, <<>>)

\* Path(file): the path whose str is file
PathOf(file) == CHOOSE p \in AllPaths : PathStr(p) = file

\* Path.resolve(): symbolic links followed
Resolve(path) ==
  IF KindOf(path) = "outside" THEN OUTSIDE \o <<path[Len(path)]>> ELSE path

\* Path.relative_to(REPO_ROOT): ValueError for a path not under it
RelativeTo(path) ==
  IF IsPrefix(REPO_ROOT, path)
  THEN [raised |-> FALSE, rel |-> JoinParts(SubSeq(path, Len(REPO_ROOT) + 1, Len(path)))]
  ELSE [raised |-> TRUE, rel |-> <<>>]

\* the lines of the section of one file
Section(file, syms) ==
  <<SectionLine(RelativeTo(Resolve(PathOf(file))).rel)>>
    \o [k \in 1..Len(syms) |-> ItemLine(syms[k])] \o <<BlankLine>>

\* render_markdown past its first test: the sections, then the usage guide;
\* raised when a relative_to raised
RenderSections(syms) ==
  LET byFile == group_by_file(syms)
      files == Sorted(byFile.keys)
      bad == \E k \in 1..Len(files) : RelativeTo(Resolve(PathOf(files[k]))).raised
  IN IF bad THEN [raised |-> TRUE, doc |-> <<>>]
     ELSE [raised |-> FALSE,
           doc |-> <<MD_HEADER>>
                     \o Flatten([k \in 1..Len(files) |->
                                   Section(files[k], byFile.groups[files[k]])])
                     \o UsageLines]

\* render_markdown without its test for an empty list
render_markdown_NoFallback(syms) == RenderSections(syms)

render_markdown(syms) ==
  IF syms = <<>> THEN [raised |-> FALSE, doc |-> <<MD_HEADER, FallbackLine>>]
  ELSE RenderSections(syms)

\* ------------------------------------------------------------ main
Idle ==
  lang = "none" /\ lines = <<>> /\ text = <<>> /\ out = <<>> /\ grouped = NoGroups

Init ==
  /\ tree \in Trees
  /\ stack = <<REPO_ROOT>>
  /\ todo = {}
  /\ symbols = <<>>
  /\ reads = {}
  /\ calls = {}
  /\ order = <<>>
  /\ md = <<>>
  /\ output = <<>>
  /\ pc = "scan"
  /\ Idle

\* for dirpath, dirnames, filenames in os.walk(root): the next directory, its
\* subdirectories pushed in listing order; a directory with an ignored part
\* is passed over with its files
WalkDir ==
  /\ pc = "scan" /\ todo = {} /\ stack # <<>>
  /\ LET d == Head(stack)
     IN /\ \E subs \in Listings(SubDirs(d)) : stack' = subs \o Tail(stack)
        /\ todo' = IF PartsIgnored(d) THEN {} ELSE FilesIn(d)
  /\ UNCHANGED <<tree, symbols, reads, calls, order, md, output, pc>>
  /\ UNCHANGED <<parseVars, grouped>>

\* one turn of "for filename in filenames"
VisitFile(path) ==
  /\ pc = "scan" /\ path \in todo
  /\ todo' = todo \ {path}
  /\ order' = Append(order, path)
  /\ IF is_ignored(path)
     THEN UNCHANGED <<reads, calls, symbols>>
     ELSE LET txt == read_text_safe(path)
              parser == ParserFor(Suffix(path))
          IN /\ reads' = reads \cup {path}
             /\ IF txt = <<>> \/ parser = "none"
                THEN UNCHANGED <<calls, symbols>>
                ELSE /\ calls' = calls \cup {[path |-> path, parser |-> parser]}
                     /\ symbols' = symbols \o TryParse(parser, path, txt)
  /\ UNCHANGED <<tree, stack, md, output, pc>>
  /\ UNCHANGED <<parseVars, grouped>>

\* return symbols
ScanReturn ==
  /\ pc = "scan" /\ todo = {} /\ stack = <<>>
  /\ pc' = "render"
  /\ UNCHANGED <<tree, stack, todo, symbols, reads, calls, order, md, output>>
  /\ UNCHANGED <<parseVars, grouped>>

\* md = render_markdown(symbols)
RenderMarkdown ==
  /\ pc = "render"
  /\ LET r == render_markdown(symbols)
     IN /\ md' = r.doc
        /\ pc' = IF r.raised THEN "raised" ELSE "write"
  /\ UNCHANGED <<tree, stack, todo, symbols, reads, calls, order, output>>
  /\ UNCHANGED <<parseVars, grouped>>

\* OUTPUT_PATH.parent.mkdir(...); OUTPUT_PATH.write_text(md)
WriteOutput ==
  /\ pc = "write"
  /\ output' = md
  /\ pc' = "done"
  /\ UNCHANGED <<tree, stack, todo, symbols, reads, calls, order, md>>
  /\ UNCHANGED <<parseVars, grouped>>

Next ==
  \/ WalkDir
  \/ \E path \in todo : VisitFile(path)
  \/ ScanReturn
  \/ RenderMarkdown
  \/ WriteOutput

Spec == Init /\ [][Next]_vars

\* ------------------------------------------------------------ one parser
\* A parser run on a file written line by line.
InitParse ==
  /\ lang \in ParserNames
  /\ lines = <<>>
  /\ text = <<>>
  /\ out = <<>>
  /\ pc = "edit"
  /\ tree = <<>> /\ stack = <<>> /\ todo = {} /\ symbols = <<>> /\ reads = {}
  /\ calls = {} /\ order = <<>> /\ md = <<>> /\ output = <<>>
  /\ grouped = NoGroups

AddDecl(d) ==
  /\ pc = "edit" /\ Len(lines) < MaxDecls
  /\ d \in DeclsOf(lang)
  /\ lines' = Append(lines, d)
  /\ text' = FileOf(lines')
  /\ UNCHANGED <<lang, out, pc>>
  /\ UNCHANGED <<scanVars, grouped>>

AddDeclForms ==
  /\ pc = "edit" /\ lines = <<>>
  /\ lines' = DeclForms[lang]
  /\ text' = FileOf(lines')
  /\ UNCHANGED <<lang, out, pc>>
  /\ UNCHANGED <<scanVars, grouped>>

ParseFile ==
  /\ pc = "edit"
  /\ out' = RunParser(lang, ModulePath(lang), text)
  /\ pc' = "parsed"
  /\ UNCHANGED <<lang, lines, text>>
  /\ UNCHANGED <<scanVars, grouped>>

NextParse ==
  \/ \E d \in DeclIds : AddDecl(d)
  \/ AddDeclForms
  \/ ParseFile

SpecParse == InitParse /\ [][NextParse]_vars

\* ------------------------------------------------------------ grouping alone
\* group_by_file applied to a symbol list built one symbol at a time.
MaxSyms == 3

SomeSymbols ==
  {Symbol(k, <<n>>, <<n>>, Abs(rel)) :
     k \in {"function", "symbol"}, n \in {"add"},
     rel \in { << <<"a", ".", "t", "s">> >>, << <<"a">>, <<"b", ".", "t", "s">> >> }}

InitGroup ==
  /\ symbols = <<>>
  /\ grouped = NoGroups
  /\ pc = "collect"
  /\ tree = <<>> /\ stack = <<>> /\ todo = {} /\ reads = {}
  /\ calls = {} /\ order = <<>> /\ md = <<>> /\ output = <<>>
  /\ lang = "none" /\ lines = <<>> /\ text = <<>> /\ out = <<>>

AddSymbol(s) ==
  /\ pc = "collect" /\ Len(symbols) < MaxSyms
  /\ symbols' = Append(symbols, s)
  /\ UNCHANGED <<tree, stack, todo, reads, calls, order, md, output, pc,
                 parseVars, grouped>>

GroupSymbols ==
  /\ pc = "collect"
  /\ grouped' = group_by_file(symbols)
  /\ pc' = "grouped"
  /\ UNCHANGED <<scanVars, parseVars>>

NextGroup ==
  \/ \E s \in SomeSymbols : AddSymbol(s)
  \/ GroupSymbols

SpecGroup == InitGroup /\ [][NextGroup]_vars

\* ------------------------------------------------------------ properties
ScanDone == pc \in {"render", "write", "done", "raised"}

HasIgnoredPart(path) == \E k \in 1..Len(path) : path[k] \in IGNORE_DIRS

ExtsOf(l) == {LANG_EXTS[l][k] : k \in 1..Len(LANG_EXTS[l])}

AllExts == UNION {ExtsOf(l) : l \in DOMAIN LANG_EXTS}

LangParser ==
  [js |-> "parse_js_ts", ts |-> "parse_js_ts", py |-> "parse_py", go |-> "parse_go",
   rs |-> "parse_rust", java |-> "parse_java", sh |-> "parse_shell"]

\* the symbols of a file that can be read and parsed, from the repository alone
ValidSymbols(path) ==
  IF HasIgnoredPart(path) \/ Content(path) = <<>> \/ Suffix(path) \notin AllExts
  THEN <<>>
  ELSE LET l == CHOOSE x \in DOMAIN LANG_EXTS : Suffix(path) \in ExtsOf(x)
       IN RunParser(LangParser[l], path, Content(path))

\* an unreadable file, or one its parser raises on
Bad(path) == KindOf(path) \in {"unreadable", "raises"}

Contribution(path) == IF Bad(path) THEN <<>> ELSE ValidSymbols(path)

Ascending(S) ==
  CHOOSE s \in Listings(S) :
    \A i, j \in 1..Len(s) : i < j => StrLess(PathStr(s[i]), PathStr(s[j]))

\* the document fixed by the files and their contents: one section per file
\* that has symbols, by ascending path string, the symbols in in-file order
ExpectedDoc ==
  LET files == Ascending({p \in AllPaths : Contribution(p) # <<>>})
      Sect(p) ==
        <<SectionLine(JoinParts(SubSeq(p, Len(REPO_ROOT) + 1, Len(p))))>>
          \o [k \in 1..Len(Contribution(p)) |-> ItemLine(Contribution(p)[k])]
          \o <<BlankLine>>
  IN <<MD_HEADER>> \o Flatten([k \in 1..Len(files) |-> Sect(files[k])]) \o UsageLines

\* C1: whatever order the files were visited in, the document render_markdown
\* returns is the one fixed by the files and their contents: sections in
\* ascending order of the path string, each listing its file's symbols in
\* in-file order.
C1_OrderIndependent ==
  (pc \in {"write", "done"} /\ symbols # <<>>) => md = ExpectedDoc

\* two files with symbols were visited in descending path order and the
\* document was written
C1_Witness ==
  /\ pc = "done"
  /\ \E i, j \in 1..Len(order) :
       /\ i < j
       /\ Contribution(order[i]) # <<>> /\ Contribution(order[j]) # <<>>
       /\ StrLess(PathStr(order[j]), PathStr(order[i]))

\* C2: in parse_js_ts every declaration the generic export rule matches
\* yields exactly one Symbol of its kind and name: as many Symbols of a kind
\* and name as the generic rule has matches of that kind and name, also when
\* the kind is function or class and the generic rule skips the match.
C2_OnePerGenericMatch ==
  (pc = "parsed" /\ lang = "parse_js_ts") =>
    LET ms == FindIter("JS_TS_EXPORT_RE", text)
    IN \A i \in 1..Len(ms) :
         Cardinality({k \in 1..Len(out) :
                        out[k].kind = ms[i].g1[1] /\ out[k].name = ms[i].g2})
           = Cardinality({k \in 1..Len(ms) :
                            ms[k].g1 = ms[i].g1 /\ ms[k].g2 = ms[i].g2})

IsExportList(d) == \E k \in 1..Len(Decls[d].expect) : Decls[d].expect[k].kind = "symbol"

\* the post-alias names the export lists of the file list, in order
ListedNames ==
  LET lists == SelectSeq(lines, IsExportList)
  IN Flatten([k \in 1..Len(lists) |->
                [j \in 1..Len(Decls[lists[k]].expect) |-> Decls[lists[k]].expect[j].name]])

\* C3: parse_js_ts emits exactly one Symbol of kind symbol per entry of every
\* export list, in list order, named by the post-alias name of an aliased
\* entry; "export function add(a, b) {}" with "export { add as sum }" yields
\* exactly function add(a, b) and symbol sum.
C3_ExportListNames ==
  (pc = "parsed" /\ lang = "parse_js_ts") =>
    LET got == SelectSeq(out, LAMBDA s : s.kind = "symbol")
    IN /\ [k \in 1..Len(got) |-> got[k].name] = ListedNames
       /\ lines = <<"js_function", "js_export_alias">> =>
            [k \in 1..Len(out) |-> <<out[k].kind, out[k].name, out[k].signature>>]
              = << <<"function", <<"add">>, <<"add", "(", "a", ",", " ", "b", ")">> >>,
                   <<"symbol", <<"sum">>, <<"sum">> >> >>

\* C4: the symbols scan_repository has accumulated are those of the valid
\* files visited so far, in visiting order: an unreadable file and a file its
\* parser raises on add nothing and stop nothing.
C4_Isolation ==
  symbols = Flatten([k \in 1..Len(order) |->
                       IF Bad(order[k]) THEN <<>> ELSE ValidSymbols(order[k])])

\* the scan returned; exactly one file is bad, it has a recognized extension
\* and text, and a valid file with symbols was visited after it
C4_Witness ==
  /\ ScanDone
  /\ Cardinality({p \in AllPaths : Bad(p)}) = 1
  /\ \E i, j \in 1..Len(order) :
       /\ i < j
       /\ Bad(order[i]) /\ ValidSymbols(order[i]) # <<>>
       /\ ~Bad(order[j]) /\ ValidSymbols(order[j]) # <<>>

\* C5: when the scan yields no symbols, render_markdown returns the header
\* followed by the fallback line without raising, and main writes it: the
\* output is that document, never absent or empty.
C5_Fallback ==
  /\ (ScanDone /\ symbols = <<>>) => pc # "raised"
  /\ (pc \in {"write", "done"} /\ symbols = <<>>) => md = <<MD_HEADER, FallbackLine>>
  /\ pc = "done" => (output = md /\ output # <<>>)

\* files were read, none had a declaration, and the document was written
C5_Witness == pc = "done" /\ symbols = <<>> /\ reads # {}

\* C6: a file with an ignored name anywhere in its path is never read, never
\* handed to a parser, and no symbol comes from it.
C6_IgnoredNeverRead ==
  \A p \in AllPaths :
    HasIgnoredPart(p) =>
      /\ p \notin reads
      /\ \A c \in calls : c.path # p
      /\ \A k \in 1..Len(symbols) : symbols[k].file # PathStr(p)

\* the scan is over; it took a readable file whose own name is ignored and
\* passed over a readable file in an ignored directory
C6_Witness ==
  /\ pc = "done"
  /\ \E k \in 1..Len(order) : HasIgnoredPart(order[k]) /\ KindOf(order[k]) = "ok"
  /\ \E p \in AllPaths :
       /\ HasIgnoredPart(SubSeq(p, 1, Len(p) - 1)) /\ KindOf(p) = "ok"
       /\ \A k \in 1..Len(order) : order[k] # p

\* C7: scan_repository followed by render_markdown never raises.
C7_NeverRaises == pc # "raised"

DeclPairs(ids) ==
  Flatten([k \in 1..Len(ids) |-> Decls[ids[k]].expect])

\* C8: a file with one instance of each declaration form of its language
\* yields exactly one Symbol per declaration, of the documented kind.
C8_OnePerDeclaration ==
  (pc = "parsed" /\ lines = DeclForms[lang]) =>
    LET want == DeclPairs(lines)
        got == [k \in 1..Len(out) |-> [kind |-> out[k].kind, name |-> out[k].name]]
    IN /\ Len(got) = Len(want)
       /\ \A k \in 1..Len(want) :
            Cardinality({j \in 1..Len(got) : got[j] = want[k]})
              = Cardinality({j \in 1..Len(want) : want[j] = want[k]})

\* the parsers called on a path
CallsOn(p) == {c \in calls : c.path = p}

\* C9: a parser is called only on a file whose suffix is an entry of the
\* table, and it is the parser registered for that entry; a file that reaches
\* the dispatch with such a suffix gets exactly one call; visiting a file
\* with any other suffix leaves the symbols and the calls as they were and
\* the scan goes on.
C9_Dispatch ==
  /\ [](\A p \in AllPaths :
          /\ \A c \in CallsOn(p) :
               \E l \in DOMAIN LANG_EXTS :
                 Suffix(p) \in ExtsOf(l) /\ c.parser = LangParser[l]
          /\ Cardinality(CallsOn(p)) <= 1
          /\ (p \in reads /\ read_text_safe(p) # <<>> /\ Suffix(p) \in AllExts)
               => Cardinality(CallsOn(p)) = 1)
  /\ [][(order' # order /\ Suffix(order'[Len(order')]) \notin AllExts)
          => (symbols' = symbols /\ calls' = calls /\ pc' = "scan")]_vars

\* a readable file with text whose suffix differs from an entry only in case
\* was visited after a file that was parsed
C9_Witness ==
  \E i, j \in 1..Len(order) :
    /\ i < j
    /\ CallsOn(order[i]) # {} /\ symbols # <<>>
    /\ order[j] \in reads /\ read_text_safe(order[j]) # <<>>
    /\ Suffix(order[j]) = <<".", "P", "Y">>

\* C10: group_by_file loses and merges nothing: the keys are the files of
\* the input, each once, and each group is the input's symbols of that file
\* in input order.
C10_Partition ==
  pc = "grouped" =>
    /\ DOMAIN grouped.groups = {symbols[k].file : k \in 1..Len(symbols)}
    /\ {grouped.keys[k] : k \in 1..Len(grouped.keys)} = DOMAIN grouped.groups
    /\ Len(grouped.keys) = Cardinality(DOMAIN grouped.groups)
    /\ \A f \in DOMAIN grouped.groups :
         grouped.groups[f] = SelectSeq(symbols, LAMBDA s : s.file = f)

\* the same symbol, name and kind, from two files, the files interleaved
C10_Witness ==
  /\ pc = "grouped"
  /\ Len(symbols) = 3
  /\ symbols[1].file = symbols[3].file /\ symbols[1].file # symbols[2].file
  /\ symbols[1].name = symbols[2].name /\ symbols[1].kind = symbols[2].kind
  /\ Len(grouped.keys) = 2

====
